---- MODULE Spec2Model ----
(***************************************************************************)
(* Model of igl::vulkan::Texture (src/src/igl/vulkan/Texture.cpp):         *)
(* creation of the device image from a TextureDesc, the staged uploads     *)
(* (upload, uploadCube), mip generation and the cache of framebuffer       *)
(* image views.                                                            *)
(*                                                                         *)
(* IGL_ASSERT / IGL_ASSERT_MSG / IGL_VERIFY are soft assertions: the code  *)
(* that follows them (an error return, a corrected field) runs after a     *)
(* failed assertion, so a failed assertion is modelled as a recorded       *)
(* warning after which execution continues.                                *)
(***************************************************************************)
EXTENDS Integers, Sequences, FiniteSets, TLC

(* ------------------------------ bounds -------------------------------- *)
MaxDim == 2        \* largest width / height of a descriptor
MaxMips == 3       \* largest numMipLevels of a descriptor
MaxLayers == 2     \* largest numLayers of a descriptor
MaxLevel == 2      \* largest mip level asked of the framebuffer view cache
MaxCalls == 3      \* cap on the counters of device calls

(* ------------------------------ enums --------------------------------- *)
\* TextureType; "Invalid" stands for every enumerator that is not 2D/3D/Cube
TextureTypes == {"Invalid", "TwoD", "ThreeD", "Cube"}
TextureFormats == {"R_UN8", "RG_UN8", "RGB8_ETC2", "Z_UN24"}
UsageBits == {"Sampled", "Storage", "Attachment"}
Storages == {"Private", "Shared"}
SampleCounts == {1, 4}
CubeFaces == {"PosX", "NegX", "PosY", "NegY", "PosZ", "NegZ"}

NoHandle == 0
NoTexture == [image |-> NoHandle, view |-> NoHandle]
NoImage == [type_ |-> "none", imageFormat_ |-> "VK_FORMAT_UNDEFINED",
            imageLayout_ |-> "VK_IMAGE_LAYOUT_UNDEFINED", aspect |-> "none",
            mipLevels |-> 0, arrayLayers |-> 0, samples |-> 0,
            usageFlags |-> {}, createFlags |-> {}, viewType |-> "none",
            extent |-> <<0, 0, 0>>]

(* ------------------------------ Result -------------------------------- *)
Result(code, message) == [code |-> code, message |-> message]
ResultOk == Result("Ok", "")
isOk(r) == r.code = "Ok"

\* The error kinds of the specification, as the Result::Code the code returns
UnsupportedType == "Unimplemented"
InvalidSampleConfiguration == "ArgumentOutOfRange"
MipLevelOutOfRange == "ArgumentOutOfRange"
ViewCreationFailed == "InvalidOperation"
AllocationFailed == "RuntimeError"
RangeOutOfBounds == "RangeOutOfBounds"

(* ------------------------- format translator -------------------------- *)
isDepthOrStencilFormat(f) == f = "Z_UN24"

textureFormatToVkFormat(f) ==
  CASE f = "R_UN8" -> "VK_FORMAT_R8_UNORM"
    [] f = "RG_UN8" -> "VK_FORMAT_R8G8_UNORM"
    [] f = "RGB8_ETC2" -> "VK_FORMAT_ETC2_R8G8B8_UNORM_BLOCK"
    [] f = "Z_UN24" -> "VK_FORMAT_D24_UNORM_S8_UINT"
    [] OTHER -> "VK_FORMAT_UNDEFINED"

vkFormatToTextureFormat(v) ==
  CASE v = "VK_FORMAT_R8_UNORM" -> "R_UN8"
    [] v = "VK_FORMAT_R8G8_UNORM" -> "RG_UN8"
    [] v = "VK_FORMAT_ETC2_R8G8B8_UNORM_BLOCK" -> "RGB8_ETC2"
    [] v = "VK_FORMAT_D24_UNORM_S8_UINT" -> "Z_UN24"
    [] v = "VK_FORMAT_D32_SFLOAT" -> "Z_FLOAT32"
    [] OTHER -> "Invalid"

\* the depth formats a device may report as closest to a depth TextureFormat
ClosestDepthStencilFormats == {"VK_FORMAT_D24_UNORM_S8_UINT", "VK_FORMAT_D32_SFLOAT"}

isCompressedTextureFormat(f) == f = "RGB8_ETC2"

toBytesPerBlock(f) == IF f = "RGB8_ETC2" THEN 8 ELSE 1

getBytesPerPixel(v) ==
  CASE v = "VK_FORMAT_R8_UNORM" -> 1
    [] v = "VK_FORMAT_R8G8_UNORM" -> 2
    [] v = "VK_FORMAT_D24_UNORM_S8_UINT" -> 4
    [] v = "VK_FORMAT_D32_SFLOAT" -> 4
    [] OTHER -> 1

getVulkanSampleCountFlags(n) == IF n \in {1, 2, 4, 8, 16} THEN n ELSE 1

(* --------------------------- mip arithmetic --------------------------- *)
Max(a, b) == IF a >= b THEN a ELSE b

RECURSIVE Pow2(_)
Pow2(k) == IF k = 0 THEN 1 ELSE 2 * Pow2(k - 1)

RECURSIVE CeilLog2From(_, _)
CeilLog2From(n, k) == IF Pow2(k) >= n THEN k ELSE CeilLog2From(n, k + 1)

\* TextureDesc::calcNumMipLevels: ceil(log2(max(width, height))) + 1
calcNumMipLevels(width, height) == CeilLog2From(Max(width, height), 0) + 1

(* ------------------------------ state --------------------------------- *)
VARIABLES
  pc,                        \* "none" | "created" | "failed" | "crashed"
  format_,                   \* ITexture::format_
  desc_,                     \* Texture::desc_
  texture_,                  \* Texture::texture_ (image and view it owns)
  image,                     \* the VulkanImage behind texture_
  live,                      \* device objects (images, views) alive
  nextHandle,                \* next device handle to hand out
  imageViewForFramebuffer_,  \* Texture::imageViewForFramebuffer_
  viewsCreated,              \* per mip level, framebuffer views ever created
  createImageCalls,          \* calls of VulkanContext::createImage
  submits,                   \* command buffers submitted by generateMipmap
  call,                      \* the last call: its arguments and what it did
  thread,                    \* per caller thread, where it is in getVkImageViewForFramebuffer
  racy                       \* two calls overlapped and one of them was on the creation path

vars == <<pc, format_, desc_, texture_, image, live, nextHandle,
          imageViewForFramebuffer_, viewsCreated, createImageCalls, submits, call, thread, racy>>

NoDesc == [type |-> "Invalid", format |-> "R_UN8", width |-> 0, height |-> 0,
           depth |-> 0, numLayers |-> 0, numMipLevels |-> 0, numSamples |-> 0,
           usage |-> {}, storage |-> "Private"]

NoRange == [x |-> 0, y |-> 0, z |-> 0, width |-> 0, height |-> 0, depth |-> 0,
            layer |-> 0, numLayers |-> 0, mipLevel |-> 0, numMipLevels |-> 0]

\* a call record: op, the arguments it was given, and what it did
NoCall == [op |-> "none", result |-> ResultOk, warned |-> FALSE, desc |-> NoDesc,
           range |-> NoRange, data |-> "null", bytesPerRow |-> 0, face |-> "PosX",
           level |-> 0, copies |-> <<>>, ret |-> NoHandle, outOfBoundsRead |-> FALSE,
           imageCalls |-> 0, viewCalls |-> 0, submitted |-> 0,
           device |-> <<"ok", "ok">>, created |-> FALSE,
           layoutBefore |-> "VK_IMAGE_LAYOUT_UNDEFINED"]

(* ------------------------- Texture::create ---------------------------- *)
\* Texture::Texture: ITexture(format) keeps the format handed to the constructor
Texture(format) == format

typeSupported(type) == type = "TwoD" \/ type = "Cube" \/ type = "ThreeD"

\* the zero mip count left as it is
normalizeMipLevels_kept(d) == d

normalizeMipLevels(d) ==
  IF d.numMipLevels = 0 THEN [d EXCEPT !.numMipLevels = 1] ELSE d

multisampledMips(d) == d.numSamples > 1 /\ d.numMipLevels # 1

\* a slip in the type tested by the 3D rule
multisampled3D_wrongType(d) == d.numSamples > 1 /\ d.type = "Cube"

multisampled3D(d) == d.numSamples > 1 /\ d.type = "ThreeD"

\* an off-by-one in the mip-count bound
mipLevelsInRange_offByOne(d) == d.numMipLevels <= calcNumMipLevels(d.width, d.height) + 1

mipLevelsInRange(d) == d.numMipLevels <= calcNumMipLevels(d.width, d.height)

\* the empty usage set left as it is
normalizeUsage_kept(d) == d

normalizeUsage(d) ==
  IF d.usage = {} THEN [d EXCEPT !.usage = {"Sampled"}] ELSE d

\* lines 34..66: the validation part of create; desc_ keeps what was normalized
\* up to the point of return
validate(desc) ==
  LET d0 == desc
      d1 == normalizeMipLevels(d0)
      d2 == normalizeUsage(d1)
  IN
  IF ~typeSupported(d0.type)
    THEN [result |-> Result("Unimplemented", ""), desc_ |-> d0, warned |-> TRUE]
  ELSE IF multisampledMips(d1)
    THEN [result |-> Result("ArgumentOutOfRange",
                            "The number of mip levels for multisampled images should be 1"),
          desc_ |-> d1, warned |-> TRUE]
  ELSE IF multisampled3D(d1)
    THEN [result |-> Result("ArgumentOutOfRange", "Multisampled 3D images are not supported"),
          desc_ |-> d1, warned |-> TRUE]
  ELSE IF ~mipLevelsInRange(d1)
    THEN [result |-> Result("ArgumentOutOfRange",
                            "The number of specified mip levels is greater than the maximum possible number of mip levels."),
          desc_ |-> d1, warned |-> TRUE]
  ELSE [result |-> ResultOk, desc_ |-> d2,
        warned |-> (d0.numMipLevels = 0 \/ d1.usage = {})]

\* lines 69..85
usageFlagsOf(d) ==
  (IF d.storage = "Private" THEN {"TRANSFER_DST"} ELSE {})
  \cup (IF "Sampled" \in d.usage THEN {"SAMPLED"} ELSE {})
  \cup (IF "Storage" \in d.usage THEN {"STORAGE"} ELSE {})
  \cup (IF "Attachment" \in d.usage
          THEN (IF isDepthOrStencilFormat(d.format)
                  THEN {"DEPTH_STENCIL_ATTACHMENT"} ELSE {"COLOR_ATTACHMENT"})
          ELSE {})
  \cup {"TRANSFER_SRC"}

\* line 76: IGL_ASSERT_MSG(desc_.numSamples <= 1, ...) for storage images
storageAssertFails(d) == "Storage" \in d.usage /\ ~(d.numSamples <= 1)

\* lines 96..120
arrayLayerCountOf(d) == IF d.type = "Cube" THEN d.numLayers * 6 ELSE d.numLayers
imageViewTypeOf(d) ==
  CASE d.type = "TwoD" -> "VK_IMAGE_VIEW_TYPE_2D"
    [] d.type = "ThreeD" -> "VK_IMAGE_VIEW_TYPE_3D"
    [] d.type = "Cube" -> "VK_IMAGE_VIEW_TYPE_CUBE"
    [] OTHER -> "none"
imageTypeOf(d) == IF d.type = "ThreeD" THEN "VK_IMAGE_TYPE_3D" ELSE "VK_IMAGE_TYPE_2D"
samplesOf(d) == IF d.type = "TwoD" THEN getVulkanSampleCountFlags(d.numSamples) ELSE 1
createFlagsOf(d) == IF d.type = "Cube" THEN {"CUBE_COMPATIBLE"} ELSE {}

\* lines 144..146
aspectOf(usageFlags) ==
  IF "DEPTH_STENCIL_ATTACHMENT" \in usageFlags
    THEN "VK_IMAGE_ASPECT_DEPTH_BIT" ELSE "VK_IMAGE_ASPECT_COLOR_BIT"

\* an image that is not released when create returns early
destroyLocals_leak(alive, owned) == alive

\* a local shared_ptr going out of scope on a return: what it owned is destroyed
destroyLocals(alive, owned) == alive \ owned

\* Texture::create(desc). closest: the device's closest depth format;
\* imgOutcome, viewOutcome: what createImage / createImageView produce;
\* h: the next free device handle; alive: the device objects alive at entry
create(desc, closest, imgOutcome, viewOutcome, h, alive) ==
  LET v == validate(desc)
      d == v.desc_
      vkFormat == IF isDepthOrStencilFormat(desc.format)
                    THEN closest ELSE textureFormatToVkFormat(desc.format)
      usageFlags == usageFlagsOf(d)
      aspect == aspectOf(usageFlags)
      img == [type_ |-> imageTypeOf(d), imageFormat_ |-> vkFormat,
              imageLayout_ |-> "VK_IMAGE_LAYOUT_UNDEFINED", aspect |-> aspect,
              mipLevels |-> d.numMipLevels, arrayLayers |-> arrayLayerCountOf(d),
              samples |-> samplesOf(d), usageFlags |-> usageFlags,
              createFlags |-> createFlagsOf(d), viewType |-> imageViewTypeOf(d),
              extent |-> <<d.width, d.height, d.depth>>]
      fail(res, warned, alive2, nh, ic, vc) ==
        [result |-> res, desc_ |-> d, warned |-> warned, texture_ |-> NoTexture,
         image |-> NoImage, live |-> alive2, nextHandle |-> nh,
         imageCalls |-> ic, viewCalls |-> vc]
  IN
  IF ~isOk(v.result)
    THEN fail(v.result, v.warned, alive, h, 0, 0)
  ELSE IF imgOutcome = "error"
    THEN fail(Result("RuntimeError", "createImage"), TRUE, alive, h, 1, 0)
  ELSE IF imgOutcome = "null"
    THEN fail(Result("InvalidOperation", "Cannot create VulkanImage"), TRUE, alive, h, 1, 0)
  ELSE IF viewOutcome = "null"
    THEN fail(Result("InvalidOperation", "Cannot create VulkanImageView"), TRUE,
              destroyLocals(alive \cup {h}, {h}), h + 1, 1, 1)
  ELSE [result |-> ResultOk, desc_ |-> d,
        warned |-> (v.warned \/ storageAssertFails(d)),
        texture_ |-> [image |-> h, view |-> h + 1], image |-> img,
        live |-> alive \cup {h, h + 1}, nextHandle |-> h + 2,
        imageCalls |-> 1, viewCalls |-> 1]

(* ------------------------------ getters ------------------------------- *)
getDimensions == <<desc_.width, desc_.height, desc_.depth>>
getFormat == format_
getVkFormat == IF texture_ # NoTexture THEN image.imageFormat_ ELSE "VK_FORMAT_UNDEFINED"
\* the image's array layer count (six per cube) reported instead of the descriptor's
getNumLayers_arrayLayers == image.arrayLayers
getNumLayers == desc_.numLayers
getType == desc_.type
getUsage == desc_.usage
getSamples == desc_.numSamples
getNumMipLevels == desc_.numMipLevels

(* ------------------------- upload, uploadCube ------------------------- *)
\* ITexture::validateRange: the range must stay inside the texture's extent at
\* the addressed mip level and inside its layers (six per cube layer)
mipDim(size, level) == Max(size \div Pow2(level), 1)

rangeInBounds(d, range) ==
  /\ range.x + range.width <= mipDim(d.width, range.mipLevel)
  /\ range.y + range.height <= mipDim(d.height, range.mipLevel)
  /\ range.z + range.depth <= mipDim(d.depth, range.mipLevel)
  /\ range.layer + range.numLayers <= arrayLayerCountOf(d)

validateRange(d, range) ==
  IF rangeInBounds(d, range) THEN ResultOk
  ELSE Result(RangeOutOfBounds, "range exceeds texture dimensions")

bytesPerPixelOf(f) == getBytesPerPixel(textureFormatToVkFormat(f))

\* getTextureBytesPerSlice: the bytes of one slice of mip level `level` of an
\* image whose level 0 is width x height x depth
getTextureBytesPerSlice(width, height, depth, f, level) ==
  LET w == mipDim(width, level)
      h == mipDim(height, level)
      dd == mipDim(depth, level)
  IN IF isCompressedTextureFormat(f)
       THEN ((w + 3) \div 4) * ((h + 3) \div 4) * dd * toBytesPerBlock(f)
       ELSE w * h * dd * bytesPerPixelOf(f)

RECURSIVE sumSlices(_, _, _, _, _, _)
\* the sum of getTextureBytesPerSlice over the levels from..to of the range
sumSlices(width, height, depth, f, from, to) ==
  IF from > to THEN 0
  ELSE getTextureBytesPerSlice(width, height, depth, f, from)
         + sumSlices(width, height, depth, f, from + 1, to)

\* memory read through a pointer `off` bytes into the caller's buffer; a read
\* past the end of the buffer yields whatever lies there
PadByte == 0 - 1
GarbageBytes == {0 - 2, 0 - 3}
readByte(bytes, off, garbage) == IF off < Len(bytes) THEN bytes[off + 1] ELSE garbage

\* lines 207..211: the rows of the image repacked into linearData
linearDataOf(d, bytes, off, bytesPerRow, imageRowWidth, garbage) ==
  [k \in 1..(imageRowWidth * d.height) |->
     readByte(bytes, off + ((k - 1) \div imageRowWidth) * bytesPerRow
                         + ((k - 1) % imageRowWidth), garbage)]

\* the source offsets the repacking reads
repackReads(d, off, bytesPerRow, imageRowWidth) ==
  {off + ((k - 1) \div imageRowWidth) * bytesPerRow + ((k - 1) % imageRowWidth) :
     k \in 1..(imageRowWidth * d.height)}

\* VulkanStagingDevice::imageData2D / imageData3D consume the tightly packed
\* bytes of the copied region from the pointer they are given
stagingBytes2D(range, f) ==
  sumSlices(range.width, range.height, 1, f, 0, Max(range.numMipLevels, 1) - 1)
stagingBytes3D(range, f) ==
  getTextureBytesPerSlice(range.width, range.height, range.depth, f, 0)

\* lines 184..185
isAlignedUpload(d, img, bytesPerRow) ==
  LET f == vkFormatToTextureFormat(img.imageFormat_)
      bytesPerPixel == IF isCompressedTextureFormat(f) THEN toBytesPerBlock(f)
                       ELSE getBytesPerPixel(img.imageFormat_)
  IN isCompressedTextureFormat(f) \/ bytesPerRow = 0 \/ d.width * bytesPerPixel = bytesPerRow

\* the increment without the levels above the first
byteIncrementOf_level0Only(d, range) ==
  IF Max(range.numLayers, 1) > 1
    THEN getTextureBytesPerSlice(range.width, range.height, range.depth, d.format, 0)
    ELSE 0

\* lines 191..201
byteIncrementOf(d, range) ==
  LET numLayers == Max(range.numLayers, 1)
  IN (IF numLayers > 1
        THEN getTextureBytesPerSlice(range.width, range.height, range.depth, d.format, 0)
        ELSE 0)
     + sumSlices(range.width, range.height, range.depth, d.format, 1, range.numMipLevels - 1)

\* lines 203..240: the staging copy issued for layer i of the loop
uploadLayer(d, img, range, bytes, bytesPerRow, garbage, i) ==
  LET f == vkFormatToTextureFormat(img.imageFormat_)
      bytesPerPixel == IF isCompressedTextureFormat(f) THEN toBytesPerBlock(f)
                       ELSE getBytesPerPixel(img.imageFormat_)
      imageRowWidth == d.width * bytesPerPixel
      isAligned == isAlignedUpload(d, img, bytesPerRow)
      off == i * byteIncrementOf(d, range)
      is3D == img.type_ = "VK_IMAGE_TYPE_3D"
      n == IF is3D THEN stagingBytes3D(range, d.format) ELSE stagingBytes2D(range, d.format)
      uploadData == IF isAligned
                      THEN [k \in 1..n |-> readByte(bytes, off + k - 1, garbage)]
                      ELSE linearDataOf(d, bytes, off, bytesPerRow, imageRowWidth, garbage)
      reads == IF isAligned THEN {off + k - 1 : k \in 1..n}
               ELSE repackReads(d, off, bytesPerRow, imageRowWidth)
  IN [fn |-> IF is3D THEN "imageData3D" ELSE "imageData2D",
      offset |-> <<range.x, range.y, IF is3D THEN range.z ELSE 0>>,
      extent |-> <<range.width, range.height, IF is3D THEN range.depth ELSE 1>>,
      mipLevel |-> IF is3D THEN 0 ELSE range.mipLevel,
      numMipLevels |-> IF is3D THEN 1 ELSE range.numMipLevels,
      layer |-> IF is3D THEN 0 ELSE range.layer + i,
      format |-> img.imageFormat_,
      source |-> IF isAligned THEN "data" ELSE "linearData",
      sourceOffset |-> off,
      data |-> [k \in 1..n |-> IF k <= Len(uploadData) THEN uploadData[k] ELSE garbage],
      outOfBounds |-> (\E o \in reads : o >= Len(bytes))
                        \/ (~isAligned /\ n > imageRowWidth * d.height),
      padRead |-> (~isAligned /\ \E o \in reads : o < Len(bytes) /\ bytes[o + 1] = PadByte)]

\* Texture::upload(range, data, bytesPerRow); isNull: data is a null pointer,
\* bytes: the caller's buffer behind data
upload(d, img, range, isNull, bytes, bytesPerRow, garbage) ==
  IF isNull THEN [result |-> ResultOk, copies |-> <<>>]
  ELSE IF ~isOk(validateRange(d, range))
    THEN [result |-> validateRange(d, range), copies |-> <<>>]
  ELSE [result |-> ResultOk,
        copies |-> [j \in 1..Max(range.numLayers, 1) |->
                      uploadLayer(d, img, range, bytes, bytesPerRow, garbage, j - 1)]]

faceOrdinal(face) ==
  CASE face = "PosX" -> 0 [] face = "NegX" -> 1 [] face = "PosY" -> 2
    [] face = "NegY" -> 3 [] face = "PosZ" -> 4 [] face = "NegZ" -> 5

\* the copy addressed by the range's layer instead of the face
cubeCopy_rangeLayer(d, img, range, face, isNull, bytes, garbage) ==
  [fn |-> "imageData2D",
   offset |-> <<range.x, range.y, 0>>,
   extent |-> <<range.width, range.height, 1>>,
   mipLevel |-> range.mipLevel,
   numMipLevels |-> range.numMipLevels,
   layer |-> range.layer,
   format |-> img.imageFormat_,
   source |-> IF isNull THEN "null" ELSE "data",
   sourceOffset |-> 0,
   data |-> [k \in 1..stagingBytes2D(range, d.format) |-> readByte(bytes, k - 1, garbage)],
   outOfBounds |-> stagingBytes2D(range, d.format) > Len(bytes),
   padRead |-> FALSE]

\* the one staging copy of uploadCube, lines 254..263
cubeCopy(d, img, range, face, isNull, bytes, garbage) ==
  LET n == stagingBytes2D(range, d.format)
  IN [fn |-> "imageData2D",
      offset |-> <<range.x, range.y, 0>>,
      extent |-> <<range.width, range.height, 1>>,
      mipLevel |-> range.mipLevel,
      numMipLevels |-> range.numMipLevels,
      layer |-> faceOrdinal(face) - faceOrdinal("PosX"),
      format |-> img.imageFormat_,
      source |-> IF isNull THEN "null" ELSE "data",
      sourceOffset |-> 0,
      data |-> [k \in 1..n |-> readByte(bytes, k - 1, garbage)],
      outOfBounds |-> n > Len(bytes),
      padRead |-> FALSE]

\* uploadCube without the range check
uploadCube_noCheck(d, img, range, face, isNull, bytes, bytesPerRow, garbage) ==
  [result |-> ResultOk, copies |-> <<cubeCopy(d, img, range, face, isNull, bytes, garbage)>>]

\* Texture::uploadCube(range, face, data, bytesPerRow)
uploadCube(d, img, range, face, isNull, bytes, bytesPerRow, garbage) ==
  IF ~isOk(validateRange(d, range))
    THEN [result |-> validateRange(d, range), copies |-> <<>>]
  ELSE [result |-> ResultOk,
        copies |-> <<cubeCopy(d, img, range, face, isNull, bytes, garbage)>>]

\* the image layout a staging copy leaves behind
layoutAfterCopy == "VK_IMAGE_LAYOUT_SHADER_READ_ONLY_OPTIMAL"

(* ------------------------- the caller's buffers ----------------------- *)
\* The buffer a caller supplies for a range: per layer, the rows of level 0
\* (each followed by padding up to the row stride when a stride is given), then
\* the further mip levels of the span, tightly packed. A pixel byte's value is
\* its index in the tightly packed stream; padding is PadByte.
rowBytesOf(range, f) ==
  IF isCompressedTextureFormat(f)
    THEN getTextureBytesPerSlice(range.width, range.height, range.depth, f, 0)
    ELSE range.width * bytesPerPixelOf(f)
rowsOf(range, f) == IF isCompressedTextureFormat(f) THEN 1 ELSE range.height * range.depth
strideOf(range, f, bytesPerRow) ==
  IF isCompressedTextureFormat(f) \/ bytesPerRow = 0 THEN rowBytesOf(range, f) ELSE bytesPerRow
sliceTightOf(range, f) ==
  sumSlices(range.width, range.height, range.depth, f, 0, Max(range.numMipLevels, 1) - 1)

SourceBuffer(range, f, bytesPerRow) ==
  LET rw == rowBytesOf(range, f)
      S == strideOf(range, f, bytesPerRow)
      level0Tight == rowsOf(range, f) * rw
      level0Padded == rowsOf(range, f) * S
      tight == sliceTightOf(range, f)
      layerLen == level0Padded + (tight - level0Tight)
  IN [k \in 1..(Max(range.numLayers, 1) * layerLen) |->
        LET l == (k - 1) \div layerLen
            o == (k - 1) % layerLen
        IN IF o < level0Padded
             THEN (IF o % S < rw THEN l * tight + (o \div S) * rw + (o % S) ELSE PadByte)
             ELSE l * tight + level0Tight + (o - level0Padded)]

\* the tightly packed bytes of layer i of that buffer
PackedLayer(range, f, i) ==
  [k \in 1..sliceTightOf(range, f) |-> i * sliceTightOf(range, f) + k - 1]

(* --------------------------- generateMipmap --------------------------- *)
\* Texture::generateMipmap: with more than one mip level, assert (softly) that
\* the image has left the undefined layout, then acquire a command buffer,
\* record the mip chain and submit it
generateMipmap(d, img) ==
  IF d.numMipLevels > 1
    THEN [warned |-> (img.imageLayout_ = "VK_IMAGE_LAYOUT_UNDEFINED"),
          submitted |-> 1,
          layout |-> "VK_IMAGE_LAYOUT_SHADER_READ_ONLY_OPTIMAL"]
    ELSE [warned |-> FALSE, submitted |-> 0, layout |-> img.imageLayout_]

(* ------------------- getVkImageViewForFramebuffer --------------------- *)
\* a resize that drops what the vector held
resizeCache_clearing(cache, n) == [i \in 1..n |-> NoHandle]

\* std::vector::resize(n) for n > size(): the elements stay, null pointers follow
resizeCache(cache, n) == cache \o [i \in 1..(n - Len(cache)) |-> NoHandle]

\* the test of the size without the test of the pointer
viewCached_sizeOnly(cache, level) == level < Len(cache)

\* lines 316..318: the level is cached
viewCached(cache, level) == level < Len(cache) /\ cache[level + 1] # NoHandle

\* Texture::getVkImageViewForFramebuffer(level); viewOutcome: what
\* createImageView produces; h: the next free device handle
getVkImageViewForFramebuffer(cache, level, viewOutcome, h) ==
  IF viewCached(cache, level)
    THEN [cache |-> cache, ret |-> cache[level + 1], created |-> FALSE,
          released |-> {}, nullDeref |-> FALSE]
  ELSE LET grown == IF level >= Len(cache) THEN resizeCache(cache, level + 1) ELSE cache
           view == IF viewOutcome = "ok" THEN h ELSE NoHandle
       IN [cache |-> [grown EXCEPT ![level + 1] = view],
           ret |-> view, created |-> (view # NoHandle),
           released |-> {grown[level + 1]} \ {NoHandle},
           nullDeref |-> (view = NoHandle)]

\* the threads that call getVkImageViewForFramebuffer on one texture
Threads == {1, 2}
NoThread == [pc |-> "idle", level |-> 0, view |-> NoHandle, ret |-> NoHandle, warm |-> FALSE]
InCall == {"check", "resize", "create", "store", "return"}

(* ------------------------------ actions ------------------------------- *)
Init ==
  /\ pc = "none"
  /\ format_ = "Invalid"
  /\ desc_ = NoDesc
  /\ texture_ = NoTexture
  /\ image = NoImage
  /\ live = {}
  /\ nextHandle = 1
  /\ imageViewForFramebuffer_ = <<>>
  /\ viewsCreated = [l \in 0..MaxLevel |-> 0]
  /\ createImageCalls = 0
  /\ submits = 0
  /\ call = NoCall
  /\ thread = [t \in Threads |-> NoThread]
  /\ racy = FALSE

\* the descriptors a caller may hand to Device::createTexture
Descs ==
  [type : TextureTypes, format : {"R_UN8", "Z_UN24"}, width : 1..MaxDim, height : 1..MaxDim,
   depth : {1}, numLayers : 1..MaxLayers, numMipLevels : 0..MaxMips,
   numSamples : SampleCounts, usage : SUBSET UsageBits, storage : Storages]

ClosestFor(format) ==
  IF isDepthOrStencilFormat(format) THEN ClosestDepthStencilFormats
                                    ELSE {textureFormatToVkFormat(format)}

\* Device::createTexture(desc): construct the Texture with desc.format, call create
CreateTexture(desc, closest, imgOutcome, viewOutcome) ==
  /\ pc = "none"
  /\ LET r == create(desc, closest, imgOutcome, viewOutcome, nextHandle, live) IN
       /\ format_' = Texture(desc.format)
       /\ desc_' = r.desc_
       /\ texture_' = r.texture_
       /\ image' = r.image
       /\ live' = r.live
       /\ nextHandle' = r.nextHandle
       /\ createImageCalls' = createImageCalls + r.imageCalls
       /\ pc' = IF isOk(r.result) THEN "created" ELSE "failed"
       /\ call' = [NoCall EXCEPT !.op = "create", !.result = r.result,
                                  !.warned = r.warned, !.desc = desc,
                                  !.imageCalls = r.imageCalls, !.viewCalls = r.viewCalls,
                                  !.device = <<imgOutcome, viewOutcome>>]
  /\ UNCHANGED <<imageViewForFramebuffer_, viewsCreated, submits, thread, racy>>

\* what createImage and createImageView may produce: <<image, view>>
DeviceOutcomes == {<<"ok", "ok">>, <<"error", "ok">>, <<"null", "ok">>, <<"ok", "null">>}

CreateAny ==
  /\ pc = "none"
  /\ \E desc \in Descs : \E closest \in ClosestFor(desc.format) :
       \E o \in DeviceOutcomes : CreateTexture(desc, closest, o[1], o[2])

\* the textures the upload calls are exercised on
UploadDescs ==
  {d \in [type : {"TwoD", "ThreeD", "Cube"}, format : {"R_UN8", "RG_UN8", "RGB8_ETC2"},
          width : 1..MaxDim, height : 1..MaxDim, depth : {1, 2}, numLayers : {1, 2},
          numMipLevels : {1, 2}, numSamples : {1}, usage : {{"Sampled"}},
          storage : {"Private"}] :
     /\ (d.type = "ThreeD") = (d.depth = 2)
     /\ d.type # "TwoD" => (d.numLayers = 1 /\ d.format = "R_UN8")
     /\ d.format = "RGB8_ETC2" => d.numLayers = 1
     /\ d.numMipLevels <= calcNumMipLevels(d.width, d.height)}

CreateForUpload ==
  /\ pc = "none"
  /\ \E desc \in UploadDescs : CreateTexture(desc, textureFormatToVkFormat(desc.format), "ok", "ok")

\* the ranges a caller may pass for a texture
RangesFor(d) ==
  [x : 0..1, y : 0..1, z : {0}, width : 1..MaxDim, height : 1..MaxDim, depth : {d.depth},
   layer : 0..1, numLayers : 1..2, mipLevel : 0..1, numMipLevels : 1..2]

\* the row strides a caller may pass: unspecified, packed, padded, and the
\* texture's own row width
StridesFor(d, range) ==
  IF isCompressedTextureFormat(d.format) THEN {0, 3}
  ELSE {0} \cup {b \in {rowBytesOf(range, d.format), rowBytesOf(range, d.format) + 1,
                        d.width * bytesPerPixelOf(d.format)} :
                   b >= rowBytesOf(range, d.format)}

anyOutOfBounds(copies) == \E j \in 1..Len(copies) : copies[j].outOfBounds

RECURSIVE copiesBeforeFault(_)
\* the copies issued before the first layer whose source read leaves the buffer
copiesBeforeFault(copies) ==
  IF copies = <<>> \/ copies[1].outOfBounds THEN <<>>
  ELSE <<copies[1]>> \o copiesBeforeFault(Tail(copies))

\* what a finished or faulted upload call leaves behind. A read outside the
\* caller's buffer either faults (the process dies at that layer) or yields
\* whatever bytes lie there.
FinishUpload(op, r, range, isNull, bytesPerRow, face, fault) ==
  LET copies == IF fault THEN copiesBeforeFault(r.copies) ELSE r.copies IN
  /\ pc' = IF fault THEN "crashed" ELSE pc
  /\ image' = IF copies # <<>> THEN [image EXCEPT !.imageLayout_ = layoutAfterCopy] ELSE image
  /\ call' = [NoCall EXCEPT !.op = op, !.result = r.result, !.range = range,
                            !.data = IF isNull THEN "null" ELSE "buffer",
                            !.bytesPerRow = bytesPerRow, !.face = face,
                            !.copies = copies,
                            !.outOfBoundsRead = anyOutOfBounds(r.copies)]
  /\ UNCHANGED <<format_, desc_, texture_, live, nextHandle, imageViewForFramebuffer_,
                 viewsCreated, createImageCalls, submits, thread, racy>>

Upload(range, isNull, bytesPerRow) ==
  /\ pc = "created"
  /\ LET bytes == IF isNull THEN <<>> ELSE SourceBuffer(range, desc_.format, bytesPerRow)
         probe == upload(desc_, image, range, isNull, bytes, bytesPerRow, PadByte)
         oob == anyOutOfBounds(probe.copies)
     IN \E garbage \in (IF oob THEN GarbageBytes ELSE {PadByte}) :
          \E fault \in (IF oob THEN BOOLEAN ELSE {FALSE}) :
            FinishUpload("upload",
                         upload(desc_, image, range, isNull, bytes, bytesPerRow, garbage),
                         range, isNull, bytesPerRow, "PosX", fault)

UploadCube(range, face, isNull, bytesPerRow) ==
  /\ pc = "created"
  /\ desc_.type = "Cube"
  /\ LET bytes == IF isNull THEN <<>> ELSE SourceBuffer(range, desc_.format, bytesPerRow)
         probe == uploadCube(desc_, image, range, face, isNull, bytes, bytesPerRow, PadByte)
         oob == anyOutOfBounds(probe.copies)
     IN \E garbage \in (IF oob THEN GarbageBytes ELSE {PadByte}) :
          \E fault \in (IF oob THEN BOOLEAN ELSE {FALSE}) :
            FinishUpload("uploadCube",
                         uploadCube(desc_, image, range, face, isNull, bytes, bytesPerRow, garbage),
                         range, isNull, bytesPerRow, face, fault)

\* upload and uploadCube read desc_ and the image's type and format only, which
\* no upload changes: every behaviour of a call is reached by a call on the
\* texture as create left it
UploadAny ==
  /\ pc = "created" /\ call.op = "create"
  /\ \E range \in RangesFor(desc_) : \E isNull \in BOOLEAN :
       \E bytesPerRow \in StridesFor(desc_, range) : Upload(range, isNull, bytesPerRow)

UploadCubeAny ==
  /\ pc = "created" /\ call.op = "create"
  /\ \E range \in RangesFor(desc_) : \E face \in CubeFaces : \E isNull \in BOOLEAN :
       UploadCube(range, face, isNull, 0)

NextUpload == CreateForUpload \/ UploadAny \/ UploadCubeAny
SpecUpload == Init /\ [][NextUpload]_vars

(* ------------------------- the texture in use ------------------------- *)
\* the textures the calls on a live texture are exercised on
LifeDescs ==
  {d \in [type : {"TwoD", "Cube"}, format : {"R_UN8", "Z_UN24"}, width : {2}, height : {2},
          depth : {1}, numLayers : {1}, numMipLevels : {1, 2}, numSamples : {1},
          usage : {{"Sampled"}, {"Attachment"}}, storage : {"Private"}] :
     (d.type = "Cube" \/ d.format = "Z_UN24") => d.usage = {"Attachment"}}

CreateForUse ==
  /\ pc = "none"
  /\ \E desc \in LifeDescs : \E closest \in ClosestFor(desc.format) :
       \E o \in {<<"ok", "ok">>, <<"ok", "null">>} : CreateTexture(desc, closest, o[1], o[2])

\* the whole of level 0, or one pixel more than its width
LifeRanges(d) ==
  {[x |-> 0, y |-> 0, z |-> 0, width |-> w, height |-> d.height, depth |-> 1,
    layer |-> 0, numLayers |-> 1, mipLevel |-> 0, numMipLevels |-> 1] :
     w \in {d.width, d.width + 1}}

UploadSome ==
  /\ pc = "created"
  /\ \E range \in LifeRanges(desc_) : \E isNull \in BOOLEAN : Upload(range, isNull, 0)

GenerateMipmap ==
  /\ pc = "created"
  /\ submits < MaxCalls
  /\ LET r == generateMipmap(desc_, image) IN
       /\ submits' = submits + r.submitted
       /\ image' = [image EXCEPT !.imageLayout_ = r.layout]
       /\ call' = [NoCall EXCEPT !.op = "generateMipmap", !.warned = r.warned,
                                 !.submitted = r.submitted,
                                 !.layoutBefore = image.imageLayout_]
  /\ UNCHANGED <<pc, format_, desc_, texture_, live, nextHandle,
                 imageViewForFramebuffer_, viewsCreated, createImageCalls, thread, racy>>

\* A view that createImageView failed to make is a null pointer, and line 329
\* reads through it: the call faults, or returns whatever lies there.
GetVkImageViewForFramebuffer(level, viewOutcome, fault, stray) ==
  /\ pc = "created"
  /\ viewsCreated[level] < MaxCalls
  /\ LET r == getVkImageViewForFramebuffer(imageViewForFramebuffer_, level,
                                           viewOutcome, nextHandle)
     IN /\ imageViewForFramebuffer_' = r.cache
        /\ live' = (live \ r.released) \cup (IF r.created THEN {r.ret} ELSE {})
        /\ nextHandle' = IF r.created THEN nextHandle + 1 ELSE nextHandle
        /\ viewsCreated' = IF r.created
                             THEN [viewsCreated EXCEPT ![level] = @ + 1] ELSE viewsCreated
        /\ pc' = IF r.nullDeref /\ fault THEN "crashed" ELSE pc
        /\ call' = [NoCall EXCEPT !.op = "getVkImageViewForFramebuffer", !.level = level,
                                  !.created = r.created,
                                  !.ret = IF r.nullDeref THEN stray ELSE r.ret,
                                  !.device = <<"ok", viewOutcome>>]
  /\ UNCHANGED <<format_, desc_, texture_, image, createImageCalls, submits, thread, racy>>

GetViewAny ==
  /\ pc = "created"
  /\ \E level \in 0..MaxLevel :
       \/ GetVkImageViewForFramebuffer(level, "ok", FALSE, NoHandle)
       \/ (/\ ~viewCached(imageViewForFramebuffer_, level)
           /\ \E fault \in BOOLEAN : \E stray \in {NoHandle, nextHandle} :
                GetVkImageViewForFramebuffer(level, "null", fault, stray))

Next == CreateForUse \/ UploadSome \/ GenerateMipmap \/ GetViewAny
Spec == Init /\ [][Next]_vars

NextCreate == CreateAny
SpecCreate == Init /\ [][NextCreate]_vars

(* ------- getVkImageViewForFramebuffer called from two threads --------- *)
\* The function takes no lock (lines 315..330): each thread runs its statements
\* in order and the statements of the two threads interleave.
ConcDescs == {d \in LifeDescs : d.type = "TwoD" /\ d.format = "R_UN8" /\ d.usage = {"Attachment"}
                             /\ d.numMipLevels = 2}

CreateShared ==
  /\ pc = "none"
  /\ \E desc \in ConcDescs :
       CreateTexture(desc, textureFormatToVkFormat(desc.format), "ok", "ok")

Other(t) == CHOOSE u \in Threads : u # t

\* line 315: thread t enters the call. The call is warm when the level is
\* cached as it enters; two overlapping calls race unless both are warm.
BeginGetView(t, level) ==
  /\ pc = "created"
  /\ thread[t].pc \in {"idle", "done"}
  /\ LET warm == viewCached(imageViewForFramebuffer_, level) IN
       /\ thread' = [thread EXCEPT ![t] = [pc |-> "check", level |-> level,
                                           view |-> NoHandle, ret |-> NoHandle,
                                           warm |-> warm]]
       /\ racy' = (racy \/ (/\ thread[Other(t)].pc \in InCall
                            /\ (~warm \/ ~thread[Other(t)].warm)))
  /\ UNCHANGED <<pc, format_, desc_, texture_, image, live, nextHandle,
                 imageViewForFramebuffer_, viewsCreated, createImageCalls, submits, call>>

\* lines 316..318
CheckCached(t) ==
  /\ pc = "created"
  /\ thread[t].pc = "check"
  /\ thread' = IF viewCached(imageViewForFramebuffer_, thread[t].level)
                 THEN [thread EXCEPT ![t].pc = "done",
                                     ![t].ret = imageViewForFramebuffer_[thread[t].level + 1]]
                 ELSE [thread EXCEPT ![t].pc = "resize"]
  /\ UNCHANGED <<pc, format_, desc_, texture_, image, live, nextHandle, racy,
                 imageViewForFramebuffer_, viewsCreated, createImageCalls, submits, call>>

\* lines 320..322
ResizeCache(t) ==
  /\ pc = "created"
  /\ thread[t].pc = "resize"
  /\ imageViewForFramebuffer_' =
       IF thread[t].level >= Len(imageViewForFramebuffer_)
         THEN resizeCache(imageViewForFramebuffer_, thread[t].level + 1)
         ELSE imageViewForFramebuffer_
  /\ thread' = [thread EXCEPT ![t].pc = "create"]
  /\ UNCHANGED <<pc, format_, desc_, texture_, image, live, nextHandle, racy,
                 viewsCreated, createImageCalls, submits, call>>

\* lines 324..327, the right-hand side: the view is created
CreateView(t) ==
  /\ pc = "created"
  /\ thread[t].pc = "create"
  /\ thread' = [thread EXCEPT ![t].pc = "store", ![t].view = nextHandle]
  /\ live' = live \cup {nextHandle}
  /\ nextHandle' = nextHandle + 1
  /\ viewsCreated' = [viewsCreated EXCEPT ![thread[t].level] = @ + 1]
  /\ UNCHANGED <<pc, format_, desc_, texture_, image, racy,
                 imageViewForFramebuffer_, createImageCalls, submits, call>>

\* line 326, the assignment: the slot takes the new view and the shared_ptr it
\* held before releases its view
StoreView(t) ==
  /\ pc = "created"
  /\ thread[t].pc = "store"
  /\ imageViewForFramebuffer_' =
       [imageViewForFramebuffer_ EXCEPT ![thread[t].level + 1] = thread[t].view]
  /\ live' = live \ ({imageViewForFramebuffer_[thread[t].level + 1]} \ {NoHandle})
  /\ thread' = [thread EXCEPT ![t].pc = "return", ![t].view = NoHandle]
  /\ UNCHANGED <<pc, format_, desc_, texture_, image, nextHandle, racy,
                 viewsCreated, createImageCalls, submits, call>>

\* line 329
ReturnView(t) ==
  /\ pc = "created"
  /\ thread[t].pc = "return"
  /\ thread' = [thread EXCEPT ![t].pc = "done",
                              ![t].ret = imageViewForFramebuffer_[thread[t].level + 1]]
  /\ UNCHANGED <<pc, format_, desc_, texture_, image, live, nextHandle, racy,
                 imageViewForFramebuffer_, viewsCreated, createImageCalls, submits, call>>

\* a thread about to write the vector while the other thread is using it: the
\* data race is undefined behaviour, and one of its outcomes is a fault
Writes(t) ==
  \/ thread[t].pc = "resize" /\ thread[t].level >= Len(imageViewForFramebuffer_)
  \/ thread[t].pc = "store"

DataRaceFault ==
  /\ pc = "created"
  /\ \E t \in Threads : Writes(t) /\ thread[Other(t)].pc \in InCall
  /\ pc' = "crashed"
  /\ UNCHANGED <<format_, desc_, texture_, image, live, nextHandle, racy, thread,
                 imageViewForFramebuffer_, viewsCreated, createImageCalls, submits, call>>

BeginAny == \E t \in Threads : \E level \in 0..MaxLevel : BeginGetView(t, level)
CheckAny == \E t \in Threads : CheckCached(t)
ResizeAny == \E t \in Threads : ResizeCache(t)
CreateViewAny == \E t \in Threads : CreateView(t)
StoreAny == \E t \in Threads : StoreView(t)
ReturnAny == \E t \in Threads : ReturnView(t)

NextConc ==
  CreateShared \/ BeginAny \/ CheckAny \/ ResizeAny \/ CreateViewAny \/ StoreAny
    \/ ReturnAny \/ DataRaceFault
SpecConc == Init /\ [][NextConc]_vars

(* ------------------------ properties of create ------------------------ *)
\* the mip count and usage set create stores for a descriptor it accepts
NormalMips(desc) == IF desc.numMipLevels = 0 THEN 1 ELSE desc.numMipLevels
NormalUsage(desc) == IF desc.usage = {} THEN {"Sampled"} ELSE desc.usage

MultisampleMessages ==
  {"The number of mip levels for multisampled images should be 1",
   "Multisampled 3D images are not supported"}

\* C3 as stated: every descriptor with numSamples > 1 and (numMipLevels > 1 or
\* type ThreeD) makes create fail with InvalidSampleConfiguration and produce no
\* texture resource. (Refuted by a descriptor of an unsupported type.)
C3_AsStated ==
  (call.op = "create" /\ call.desc.numSamples > 1
     /\ (call.desc.numMipLevels > 1 \/ call.desc.type = "ThreeD"))
  => (call.result.code = InvalidSampleConfiguration
        /\ call.result.message \in MultisampleMessages
        /\ pc = "failed" /\ texture_ = NoTexture)

\* C3 amended: every descriptor of a supported type (TwoD, ThreeD, Cube) with
\* numSamples > 1 and (numMipLevels > 1 or type ThreeD) makes create fail with
\* the InvalidSampleConfiguration kind (Result code ArgumentOutOfRange with a
\* multisample message), and no texture resource and no image is produced.
C3_MultisampleRejected ==
  (call.op = "create" /\ call.desc.type \in {"TwoD", "ThreeD", "Cube"}
     /\ call.desc.numSamples > 1
     /\ (call.desc.numMipLevels > 1 \/ call.desc.type = "ThreeD"))
  => (call.result.code = InvalidSampleConfiguration
        /\ call.result.message \in MultisampleMessages
        /\ pc = "failed" /\ texture_ = NoTexture /\ live = {})

C3_Witness ==
  /\ call.op = "create" /\ pc = "failed"
  /\ call.desc.type = "ThreeD" /\ call.desc.numSamples > 1 /\ call.desc.numMipLevels = 1
  /\ call.result.message = "Multisampled 3D images are not supported"

\* C4 as stated: every descriptor whose numMipLevels exceeds
\* ceil(log2(max(width, height))) + 1 makes create fail with MipLevelOutOfRange.
\* (Refuted by a descriptor of an unsupported type.)
C4_AsStated ==
  (call.op = "create"
     /\ call.desc.numMipLevels > CeilLog2From(Max(call.desc.width, call.desc.height), 0) + 1)
  => (pc = "failed" /\ call.result.code = MipLevelOutOfRange)

\* C4 amended: every descriptor of a supported type whose numMipLevels exceeds
\* ceil(log2(max(width, height))) + 1 makes create fail with the Result code
\* ArgumentOutOfRange (the code of MipLevelOutOfRange), without a texture resource.
C4_MipCountRejected ==
  (call.op = "create" /\ call.desc.type \in {"TwoD", "ThreeD", "Cube"}
     /\ call.desc.numMipLevels > CeilLog2From(Max(call.desc.width, call.desc.height), 0) + 1)
  => (pc = "failed" /\ call.result.code = MipLevelOutOfRange
        /\ texture_ = NoTexture /\ live = {})

C4_Witness ==
  /\ call.op = "create" /\ pc = "failed" /\ call.desc.numSamples = 1
  /\ call.desc.type = "TwoD" /\ call.desc.width = 2 /\ call.desc.numMipLevels = 3
  /\ call.result.code = MipLevelOutOfRange

\* C5: for every descriptor create accepts, getDimensions, getFormat,
\* getNumMipLevels and getNumLayers report the normalized descriptor's values.
C5_ReportsNormalizedDescriptor ==
  (call.op = "create" /\ pc = "created")
  => /\ getDimensions = <<call.desc.width, call.desc.height, call.desc.depth>>
     /\ getFormat = call.desc.format
     /\ getNumMipLevels = NormalMips(call.desc)
     /\ getNumLayers = call.desc.numLayers

C5_Witness ==
  /\ call.op = "create" /\ pc = "created"
  /\ call.desc.type = "Cube" /\ call.desc.numMipLevels = 0 /\ call.desc.numLayers = 2
  /\ getNumMipLevels = 1 /\ getNumLayers = 2

\* the rules of validation other than the two lenient ones
OtherRulesHold(desc) ==
  /\ desc.type \in {"TwoD", "ThreeD", "Cube"}
  /\ ~(desc.numSamples > 1 /\ NormalMips(desc) # 1)
  /\ ~(desc.numSamples > 1 /\ desc.type = "ThreeD")
  /\ NormalMips(desc) <= CeilLog2From(Max(desc.width, desc.height), 0) + 1

\* C6: a descriptor with numMipLevels = 0 is treated as numMipLevels = 1 and one
\* with an empty usage set as usage {Sampled}: when no other rule is violated
\* create goes on to allocate the image with the corrected values stored and a
\* warning recorded, and returns success when the device produces image and view.
C6_LenientNormalization ==
  (call.op = "create" /\ (call.desc.numMipLevels = 0 \/ call.desc.usage = {})
     /\ OtherRulesHold(call.desc))
  => /\ call.imageCalls = 1
     /\ call.warned
     /\ desc_.numMipLevels = NormalMips(call.desc)
     /\ desc_.usage = NormalUsage(call.desc)
     /\ (call.device = <<"ok", "ok">>
          => (pc = "created" /\ isOk(call.result)
                /\ image.mipLevels = NormalMips(call.desc)
                /\ ("SAMPLED" \in image.usageFlags <=> "Sampled" \in NormalUsage(call.desc))))

C6_Witness ==
  /\ call.op = "create" /\ pc = "created" /\ isOk(call.result)
  /\ call.desc.numMipLevels = 0 /\ call.desc.usage = {}
  /\ desc_.numMipLevels = 1 /\ desc_.usage = {"Sampled"}

\* C10: after a create that returns an error no device image or view made by
\* the call is alive and the texture holds no resource; a validation failure
\* returns before createImage is called.
C10_NoLeakOnFailure ==
  (call.op = "create" /\ ~isOk(call.result))
  => /\ pc = "failed"
     /\ live = {}
     /\ texture_ = NoTexture
     /\ image = NoImage
     /\ (call.result.code \in {"Unimplemented", "ArgumentOutOfRange"}
          => (call.imageCalls = 0 /\ call.viewCalls = 0 /\ createImageCalls = 0))

C10_Witness ==
  /\ call.op = "create" /\ pc = "failed"
  /\ call.device = <<"ok", "null">> /\ call.imageCalls = 1 /\ call.viewCalls = 1
  /\ call.result.message = "Cannot create VulkanImageView"
  /\ live = {}

(* ------------------------ properties of upload ------------------------ *)
\* the range leaves the texture's extent at its mip level, or its layers
Escapes(d, range) ==
  \/ range.x + range.width > Max(d.width \div Pow2(range.mipLevel), 1)
  \/ range.y + range.height > Max(d.height \div Pow2(range.mipLevel), 1)
  \/ range.z + range.depth > Max(d.depth \div Pow2(range.mipLevel), 1)
  \/ range.layer + range.numLayers > (IF d.type = "Cube" THEN 6 ELSE 1) * d.numLayers

\* C1 as stated: every upload or uploadCube call whose range escapes the
\* texture returns RangeOutOfBounds and issues no staging copy, the range check
\* being the first step. (Refuted by upload with a null source: it returns
\* success before the range is looked at.)
C1_AsStated ==
  (call.op \in {"upload", "uploadCube"} /\ Escapes(desc_, call.range))
  => (call.result.code = RangeOutOfBounds /\ call.copies = <<>>)

\* C1 amended: every uploadCube call, and every upload call with a non-null
\* source, whose range escapes the texture returns RangeOutOfBounds, issues no
\* staging copy and leaves the image as it was; in upload the range check comes
\* after the null-source check.
C1_RangeRejected ==
  [][(/\ call'.op \in {"upload", "uploadCube"}
      /\ (call'.op = "upload" => call'.data # "null")
      /\ Escapes(desc_', call'.range))
     => (/\ call'.result.code = RangeOutOfBounds
         /\ call'.copies = <<>>
         /\ ~call'.outOfBoundsRead
         /\ image' = image /\ pc' = pc)]_vars

C1_Witness ==
  /\ call.op = "uploadCube" /\ call.data = "buffer"
  /\ call.range.x + call.range.width > desc_.width /\ call.range.mipLevel = 0
  /\ call.result.code = RangeOutOfBounds /\ call.copies = <<>>
  /\ image.imageLayout_ = "VK_IMAGE_LAYOUT_UNDEFINED"

\* C2: for every accepted range of an uncompressed texture, an upload whose row
\* stride is the packed row width and an upload of the same rows with a larger
\* stride both hand the tightly packed rows to the staging copy, and the
\* repacking reads only bytes of the rows of the supplied pixel data. Stated
\* for the ranges of one layer and one mip level, whose source is one block of
\* pixel rows.
C2_UnalignedEquivalence ==
  (/\ call.op = "upload" /\ call.data = "buffer"
   /\ ~isCompressedTextureFormat(desc_.format)
   /\ ~Escapes(desc_, call.range)
   /\ call.range.numLayers = 1 /\ call.range.numMipLevels = 1
   /\ call.range.mipLevel < desc_.numMipLevels
   /\ call.bytesPerRow >= call.range.width * bytesPerPixelOf(desc_.format))
  => /\ pc = "created"
     /\ ~call.outOfBoundsRead
     /\ Len(call.copies) = call.range.numLayers
     /\ \A j \in 1..Len(call.copies) :
          /\ call.copies[j].data = PackedLayer(call.range, desc_.format, j - 1)
          /\ ~call.copies[j].padRead

\* the case of C2 that the code gets right: a range that covers level 0 of a
\* one-layer texture
C2_FullRange ==
  (/\ call.op = "upload" /\ call.data = "buffer"
   /\ ~isCompressedTextureFormat(desc_.format)
   /\ image.type_ = "VK_IMAGE_TYPE_2D"
   /\ call.range.x = 0 /\ call.range.y = 0 /\ call.range.mipLevel = 0
   /\ call.range.width = desc_.width /\ call.range.height = desc_.height
   /\ call.range.numLayers = 1 /\ call.range.numMipLevels = 1 /\ call.range.layer = 0
   /\ call.bytesPerRow >= call.range.width * bytesPerPixelOf(desc_.format))
  => /\ pc = "created"
     /\ ~call.outOfBoundsRead
     /\ Len(call.copies) = 1
     /\ call.copies[1].data = PackedLayer(call.range, desc_.format, 0)
     /\ ~call.copies[1].padRead

\* C7: an upload or uploadCube call with a null source returns success and
\* issues no staging copy.
C7_NullSourceNoOp ==
  (call.op \in {"upload", "uploadCube"} /\ call.data = "null")
  => (isOk(call.result) /\ call.copies = <<>>
        /\ image.imageLayout_ = "VK_IMAGE_LAYOUT_UNDEFINED")

\* the part of C7 the code keeps: upload with a null source
C7_UploadNullNoOp ==
  (call.op = "upload" /\ call.data = "null")
  => (isOk(call.result) /\ call.copies = <<>>
        /\ image.imageLayout_ = "VK_IMAGE_LAYOUT_UNDEFINED")

(* ------------------- properties of the texture in use ----------------- *)
\* C8: generateMipmap records and submits commands only when the texture has
\* more than one mip level and its image has left the undefined layout (level 0
\* has received data); with one mip level it does nothing, and with more than
\* one but no upload before it, it submits nothing.
C8_MipmapOnlyAfterUpload ==
  (call.op = "generateMipmap")
  => /\ (call.submitted > 0
          => (desc_.numMipLevels > 1 /\ call.layoutBefore # "VK_IMAGE_LAYOUT_UNDEFINED"))
     /\ (desc_.numMipLevels = 1 => (call.submitted = 0 /\ image.imageLayout_ = call.layoutBefore))

\* the part of C8 the code keeps: nothing is submitted for one mip level, and
\* with more than one the unmet precondition is reported by the assertion
C8_MipmapGuard ==
  (call.op = "generateMipmap")
  => /\ (call.submitted > 0 <=> desc_.numMipLevels > 1)
     /\ (call.warned <=> (desc_.numMipLevels > 1
                            /\ call.layoutBefore = "VK_IMAGE_LAYOUT_UNDEFINED"))

\* C9: a framebuffer view is created at most once per mip level, a later call
\* for the level returns that view's handle, and a cached view is never
\* destroyed or replaced by a call for another level, growth of the cache
\* included.
C9_ViewCacheStable ==
  [][/\ \A l \in 1..Len(imageViewForFramebuffer_) :
          imageViewForFramebuffer_[l] # NoHandle
          => /\ Len(imageViewForFramebuffer_') >= l
             /\ imageViewForFramebuffer_'[l] = imageViewForFramebuffer_[l]
             /\ imageViewForFramebuffer_[l] \in live'
     /\ \A l \in 0..MaxLevel : viewsCreated'[l] <= 1
     /\ (/\ call'.op = "getVkImageViewForFramebuffer"
         /\ call'.level < Len(imageViewForFramebuffer_)
         /\ imageViewForFramebuffer_[call'.level + 1] # NoHandle)
        => /\ call'.ret = imageViewForFramebuffer_[call'.level + 1]
           /\ ~call'.created
           /\ viewsCreated' = viewsCreated]_vars

C9_Witness ==
  /\ call.op = "getVkImageViewForFramebuffer" /\ call.level = 0 /\ ~call.created
  /\ Len(imageViewForFramebuffer_) >= 2
  /\ imageViewForFramebuffer_[1] # NoHandle /\ imageViewForFramebuffer_[2] # NoHandle
  /\ imageViewForFramebuffer_[1] < imageViewForFramebuffer_[2]
  /\ call.ret = imageViewForFramebuffer_[1]
  /\ viewsCreated[0] = 1 /\ viewsCreated[1] = 1

(* ------------------- further properties of create --------------------- *)
\* C11: every descriptor whose usage includes Storage and whose numSamples > 1
\* makes create fail with InvalidSampleConfiguration without allocating an
\* image. Stated for the descriptors of a supported type.
C11_StorageMultisampleRejected ==
  (/\ call.op = "create" /\ call.desc.type \in {"TwoD", "ThreeD", "Cube"}
   /\ "Storage" \in call.desc.usage /\ call.desc.numSamples > 1)
  => (/\ pc = "failed"
      /\ call.result.code = InvalidSampleConfiguration
      /\ call.imageCalls = 0 /\ live = {})

\* what the code does for a multisampled storage image that passes the other
\* rules: the assertion is recorded and the image is allocated
C11_StorageMultisampleAsserted ==
  (/\ call.op = "create" /\ OtherRulesHold(call.desc)
   /\ "Storage" \in call.desc.usage /\ call.desc.numSamples > 1)
  => (/\ call.imageCalls = 1
      /\ (call.device = <<"ok", "ok">>
            => (pc = "created" /\ call.warned /\ "STORAGE" \in image.usageFlags)))

\* C16: for every successful create the primary view's aspect is the depth
\* aspect if and only if the format is a depth/stencil format, whatever the
\* usage set.
C16_AspectMatchesFormat ==
  (call.op = "create" /\ pc = "created")
  => (image.aspect = "VK_IMAGE_ASPECT_DEPTH_BIT" <=> call.desc.format = "Z_UN24")

\* what the code does: the depth aspect needs the Attachment usage as well
C16_AspectFollowsAttachment ==
  (call.op = "create" /\ pc = "created")
  => (image.aspect = "VK_IMAGE_ASPECT_DEPTH_BIT"
        <=> (call.desc.format = "Z_UN24" /\ "Attachment" \in call.desc.usage))

\* the rule of validation a descriptor violates first, in the order the spec
\* gives: type, (zero-mip correction), multisample configuration (mip count,
\* then 3D), mip-level range, (empty-usage correction)
FirstViolated(desc) ==
  IF desc.type \notin {"TwoD", "ThreeD", "Cube"} THEN "type"
  ELSE IF desc.numSamples > 1 /\ NormalMips(desc) # 1 THEN "multisampleMips"
  ELSE IF desc.numSamples > 1 /\ desc.type = "ThreeD" THEN "multisample3D"
  ELSE IF NormalMips(desc) > CeilLog2From(Max(desc.width, desc.height), 0) + 1
    THEN "mipRange"
  ELSE "none"

\* the error kind the spec names for each rule
KindOfRule(rule) ==
  CASE rule = "type" -> UnsupportedType
    [] rule = "multisampleMips" -> InvalidSampleConfiguration
    [] rule = "multisample3D" -> InvalidSampleConfiguration
    [] rule = "mipRange" -> MipLevelOutOfRange

\* the rules grouped as the claim groups them
GroupOfRule(rule) ==
  IF rule \in {"multisampleMips", "multisample3D"} THEN "multisample" ELSE rule

MessageOfRule(rule) ==
  CASE rule = "type" -> ""
    [] rule = "multisampleMips" -> "The number of mip levels for multisampled images should be 1"
    [] rule = "multisample3D" -> "Multisampled 3D images are not supported"
    [] rule = "mipRange" -> "The number of specified mip levels is greater than the maximum possible number of mip levels."

ValidationRules == {"type", "multisampleMips", "multisample3D", "mipRange"}
ValidationCodes == {KindOfRule(r) : r \in ValidationRules}

\* C12 as stated: a failing create returns the error kind of the first violated
\* rule, and that kind is the kind of no rule of another group (unsupported
\* type, multisample configuration, mip range), so the kind tells the rule.
C12_AsStated ==
  (call.op = "create" /\ FirstViolated(call.desc) # "none")
  => /\ pc = "failed"
     /\ call.result.code = KindOfRule(FirstViolated(call.desc))
     /\ \A r \in ValidationRules :
          GroupOfRule(r) # GroupOfRule(FirstViolated(call.desc))
            => KindOfRule(r) # call.result.code

\* C12 amended: validation applies its rules in the order type, zero-mip
\* correction, multisample configuration, mip-level range, empty-usage
\* correction; a failing create returns the Result code and message of the first
\* violated rule; the code tells an unsupported type (Unimplemented) from the
\* other two, which share ArgumentOutOfRange and differ in the message only; a
\* descriptor violating no rule gets no validation error.
C12_FirstViolatedRule ==
  call.op = "create"
  => LET rule == FirstViolated(call.desc) IN
     /\ rule = "none" => call.result.code \notin ValidationCodes
     /\ rule # "none" =>
          /\ pc = "failed" /\ call.imageCalls = 0
          /\ call.result.code = KindOfRule(rule)
          /\ call.result.message = MessageOfRule(rule)
          /\ \A r \in ValidationRules :
               GroupOfRule(r) # GroupOfRule(rule) =>
                 \/ KindOfRule(r) # call.result.code
                 \/ /\ {GroupOfRule(r), GroupOfRule(rule)} = {"multisample", "mipRange"}
                    /\ MessageOfRule(r) # call.result.message
          \* the corrections sit where the order puts them
          /\ desc_.usage = call.desc.usage
          /\ desc_.numMipLevels =
               (IF rule = "type" THEN call.desc.numMipLevels ELSE NormalMips(call.desc))

\* a descriptor violating the multisample rule and the mip range at once, and
\* one whose zero mip count is corrected before the multisample rule sees it
C12_Witness ==
  /\ call.op = "create" /\ pc = "failed"
  /\ call.desc.type = "TwoD" /\ call.desc.numSamples = 4
  /\ call.desc.width = 1 /\ call.desc.height = 1 /\ call.desc.numMipLevels = 3
  /\ call.desc.usage = {}
  /\ call.result.message = "The number of mip levels for multisampled images should be 1"

C12_ZeroMipAccepted ==
  /\ call.op = "create" /\ pc = "created"
  /\ call.desc.numMipLevels = 0 /\ call.desc.numSamples = 4

(* ------------------- further properties of upload --------------------- *)
\* the faces in the order of the enumeration
FaceOrder == <<"PosX", "NegX", "PosY", "NegY", "PosZ", "NegZ">>
LayerOfFace(face) == (CHOOSE k \in 1..6 : FaceOrder[k] = face) - 1

\* C13: for every face and every valid range, uploadCube with a source buffer
\* issues exactly one 2D staging copy, for the range's region and mip span,
\* whose destination layer is the face's ordinal (PosX 0 .. NegZ 5) whatever
\* the range's layer is; distinct faces land in distinct layers.
C13_CubeFaceLayer ==
  (/\ call.op = "uploadCube" /\ call.data = "buffer"
   /\ ~Escapes(desc_, call.range) /\ isOk(call.result))
  => /\ pc = "created"
     /\ Len(call.copies) = 1
     /\ call.copies[1].fn = "imageData2D"
     /\ call.copies[1].layer = LayerOfFace(call.face)
     /\ call.copies[1].layer \in 0..5
     /\ \A other \in CubeFaces \ {call.face} : LayerOfFace(other) # call.copies[1].layer
     /\ call.copies[1].offset = <<call.range.x, call.range.y, 0>>
     /\ call.copies[1].extent = <<call.range.width, call.range.height, 1>>
     /\ call.copies[1].mipLevel = call.range.mipLevel
     /\ call.copies[1].source = "data" /\ call.copies[1].sourceOffset = 0

C13_Witness ==
  /\ call.op = "uploadCube" /\ call.data = "buffer" /\ isOk(call.result)
  /\ call.face = "NegZ" /\ call.range.layer = 0
  /\ Len(call.copies) = 1 /\ call.copies[1].layer = 5

\* the sum of the slice sizes of the levels 0 .. numMipLevels-1 of a range
MipSpanBytes(d, range) ==
  LET RECURSIVE sum(_)
      sum(l) == IF l < 0 THEN 0
                ELSE getTextureBytesPerSlice(range.width, range.height, range.depth,
                                             d.format, l) + sum(l - 1)
  IN sum(range.numMipLevels - 1)

\* C15: an upload with numLayers = N > 1 on a non-volumetric texture issues
\* exactly N staging copies in increasing layer order, the i-th (i = 0..N-1) for
\* layer range.layer + i and reading the caller's buffer from byte offset i * S,
\* S the sum of the slice sizes of the levels of the range's mip span.
C15_LayerStride ==
  (/\ call.op = "upload" /\ call.data = "buffer" /\ pc = "created"
   /\ isOk(call.result) /\ call.range.numLayers > 1 /\ desc_.type # "ThreeD")
  => /\ Len(call.copies) = call.range.numLayers
     /\ \A j \in 1..Len(call.copies) :
          /\ call.copies[j].fn = "imageData2D"
          /\ call.copies[j].layer = call.range.layer + (j - 1)
          /\ call.copies[j].sourceOffset = (j - 1) * MipSpanBytes(desc_, call.range)

C15_Witness ==
  /\ call.op = "upload" /\ call.data = "buffer" /\ pc = "created" /\ isOk(call.result)
  /\ desc_.type = "TwoD" /\ desc_.format = "RG_UN8"
  /\ call.range.numLayers = 2 /\ call.range.numMipLevels = 2
  /\ call.range.width = 2 /\ call.range.height = 2
  /\ Len(call.copies) = 2 /\ call.copies[2].layer = 1
  /\ call.copies[2].sourceOffset = 10

(* -------------- properties of the view cache under threads ------------ *)
\* C14: two threads calling getVkImageViewForFramebuffer without serialization
\* for a level that is not cached can both take the creation path (two views
\* created for the level, one lost from the cache); when the calls are
\* serialized or the level was cached before they overlap, nothing faults, at
\* most one view is ever created per level, and every caller receives the
\* handle of the live view the cache holds for its level, so two callers of one
\* level receive the same handle. More than one view for a level means a race.
C14_OneViewUnlessRaced ==
  /\ \A l \in 0..MaxLevel : viewsCreated[l] > 1 => racy
  /\ pc = "crashed" => racy
  /\ ~racy =>
       /\ \A t \in Threads :
            thread[t].pc = "done" =>
              /\ viewsCreated[thread[t].level] = 1
              /\ thread[t].ret # NoHandle
              /\ thread[t].ret \in live
              /\ thread[t].ret = imageViewForFramebuffer_[thread[t].level + 1]
       /\ \A t \in Threads : \A u \in Threads :
            (thread[t].pc = "done" /\ thread[u].pc = "done"
               /\ thread[t].level = thread[u].level)
              => thread[t].ret = thread[u].ret

\* both threads created a view for one level; the first is gone from the cache
\* and destroyed, though its creator returned its handle
C14_Witness ==
  /\ racy /\ pc = "created"
  /\ thread[1].pc = "done" /\ thread[2].pc = "done"
  /\ thread[1].level = thread[2].level
  /\ viewsCreated[thread[1].level] = 2
  /\ thread[1].ret # thread[2].ret
  /\ thread[1].ret \notin live
  /\ imageViewForFramebuffer_[thread[1].level + 1] = thread[2].ret

\* both threads on the creation path of one level at once
C14_BothCreating ==
  /\ thread[1].pc = "store" /\ thread[2].pc = "store"
  /\ thread[1].level = thread[2].level

\* overlapping calls for a level cached before: no race, one view, one handle
C14_WarmOverlap ==
  /\ ~racy /\ thread[1].pc = "done" /\ thread[2].pc = "check"
  /\ thread[2].warm /\ thread[1].warm /\ thread[1].level = thread[2].level
  /\ thread[1].ret = imageViewForFramebuffer_[thread[2].level + 1]

\* the race can end in a fault
C14_RaceFault == pc = "crashed" /\ racy

====
